---- MODULE Spec2Model ----
(***************************************************************************)
(* Concepts of the social-app backend (Communiting, Favoriting, Feeding,   *)
(* Featuring) as processes that suspend at every storage round-trip.       *)
(* A request p is at pc[p]; every action below is one round-trip of one    *)
(* concept method together with the synchronous code that follows it.      *)
(***************************************************************************)
EXTENDS Integers, Sequences, FiniteSets, TLC

\* ------------------------------------------------------------------ bounds
NumProcs == 2
NumUsers == 2
NumItems == 2
MaxIds == 2
MaxMembers == 3
MaxAttention == 2

Procs == 1..NumProcs
SeqProcs == {1}
Users == 101..(100 + NumUsers)
Items == 201..(200 + NumItems)
Titles == {"Hikers", "Bikers"}
Descriptions == {"desc"}
Attentions == 0..MaxAttention
MinimumAttentions == 1..MaxAttention

VARIABLES communities, communitiesTs, favorites, feeds, features,
          minimumAttention, nextId, pc, call, community, result, issued,
          detached, unhandled, pre, prev

vars == <<communities, communitiesTs, favorites, feeds, features,
          minimumAttention, nextId, pc, call, community, result, issued,
          detached, unhandled, pre, prev>>

collections == <<communities, communitiesTs, favorites, feeds, features>>

\* ------------------------------------------------- values and the results
Null == [null |-> TRUE]

NoCall == [op |-> "none", user |-> 0, id |-> 0, title |-> "", description |-> "", item |-> 0, attention |-> 0]

NoResult == [kind |-> "none", error |-> "", msg |-> "", value |-> Null]

Ok(m, v) == [kind |-> "ok", error |-> "", msg |-> m, value |-> v]

NotFoundError(e, m) == [kind |-> "NotFound", error |-> e, msg |-> m, value |-> Null]

NotAllowedError(e, m) == [kind |-> "NotAllowed", error |-> e, msg |-> m, value |-> Null]

Snapshot == [communities |-> communities, communitiesTs |-> communitiesTs, favorites |-> favorites, feeds |-> feeds, features |-> features]

\* ------------------------------------------------ the generic collection
\* A collection is a set of documents (records) with distinct _id; natural
\* order is insertion order, which is the order of the allocated ids.
Matches(doc, filter) == \A k \in DOMAIN filter : k \in DOMAIN doc /\ doc[k] = filter[k]

Matching(coll, filter) == {d \in coll : Matches(d, filter)}

First(docs) == CHOOSE d \in docs : \A e \in docs : d._id <= e._id

ReadOne(coll, filter) == IF Matching(coll, filter) = {} THEN Null ELSE First(Matching(coll, filter))

ReadMany(coll, filter) == Matching(coll, filter)

DeleteOne(coll, filter) == IF Matching(coll, filter) = {} THEN coll ELSE coll \ {First(Matching(coll, filter))}

Patch(doc, patch) == [k \in DOMAIN doc |-> IF k \in DOMAIN patch THEN patch[k] ELSE doc[k]]

PartialUpdateOne(coll, filter, patch) == IF Matching(coll, filter) = {} THEN coll ELSE (coll \ {First(Matching(coll, filter))}) \cup {Patch(First(Matching(coll, filter)), patch)}

\* ------------------------------------------------------ process plumbing
Idle(p) == pc[p] = "idle" /\ detached[p] = {}

\* Ids a caller can name: 0 is an ObjectId no collection ever allocated.
KnownIds == 0..(nextId - 1)

InFlightCreates == Cardinality({q \in Procs : pc[q] \in {"create_assert", "create_insert", "createTs_insert", "favorite_create", "addItem_assert", "addItem_create", "promote_create"}})

SameArgs(c, d) == [c EXCEPT !.op = ""] = [d EXCEPT !.op = ""]

\* A request arrives: the synchronous prefix of the method runs up to its
\* first awaited round-trip (label), or to its return (label "done", result r).
\* pre[p] keeps the collections as they were when the request arrived; prev[p]
\* keeps p's preceding request if that one returned its success message for
\* the same arguments (NoCall otherwise).
Begin(p, c, label, r) ==
    /\ Idle(p)
    /\ pc' = [pc EXCEPT ![p] = label]
    /\ call' = [call EXCEPT ![p] = c]
    /\ community' = [community EXCEPT ![p] = Null]
    /\ result' = [result EXCEPT ![p] = r]
    /\ issued' = [issued EXCEPT ![p] = {}]
    /\ pre' = [pre EXCEPT ![p] = Snapshot]
    /\ prev' = [prev EXCEPT ![p] = IF SameArgs(prev[p], c) THEN prev[p] ELSE NoCall]

Finish(p, r) ==
    /\ pc' = [pc EXCEPT ![p] = "done"]
    /\ result' = [result EXCEPT ![p] = r]

Goto(p, label) == pc' = [pc EXCEPT ![p] = label]

Issue(p, m) == issued' = [issued EXCEPT ![p] = @ \cup {m}]

\* The response is delivered and the locals of the request are gone.
Return(p) ==
    /\ pc[p] = "done"
    /\ detached[p] = {}
    /\ pc' = [pc EXCEPT ![p] = "idle"]
    /\ prev' = [prev EXCEPT ![p] = IF result[p].kind = "ok" THEN call[p] ELSE NoCall]
    /\ call' = [call EXCEPT ![p] = NoCall]
    /\ community' = [community EXCEPT ![p] = Null]
    /\ result' = [result EXCEPT ![p] = NoResult]
    /\ issued' = [issued EXCEPT ![p] = {}]
    /\ pre' = [pre EXCEPT ![p] = Snapshot]
    /\ UNCHANGED <<collections, minimumAttention, nextId, detached, unhandled>>

\* ------------------------------------ CommunitingConcept (unnamed/part_000)
checkObjectIdInArray(id, arr) == \E i \in 1..Len(arr) : arr[i] = id

getCommunityByID(id) == ReadOne(communities, [_id |-> id])

getCommunityByTitle(title) == ReadOne(communities, [title |-> title])

getNumMembers(id) == IF getCommunityByID(id) = Null THEN NotFoundError("NotFoundError", "Community " \o ToString(id) \o " doesn't exist!") ELSE Ok("", Len(getCommunityByID(id).members))

\* Mutation: the membership test is lost, only the existence test remains.
assertUserInCommunity_NoCheck(id, user) == IF getCommunityByID(id) = Null THEN NotFoundError("NotFoundError", "Community " \o ToString(id) \o " doesn't exist!") ELSE Ok("", Null)

assertUserInCommunity(id, user) ==
    IF getCommunityByID(id) = Null THEN NotFoundError("NotFoundError", "Community " \o ToString(id) \o " doesn't exist!")
    ELSE IF ~checkObjectIdInArray(user, getCommunityByID(id).members) THEN NotFoundError("CommunityUserNoMatchError", "{0} is not a member of community {1}")
    ELSE Ok("", Null)

\* Mutation: the duplicate is reported with the error of the other assertion
\* (CommunityUserNoMatchError, a NotFoundError).
assertUserNotInCommunity_WrongError(id, user) ==
    IF getCommunityByID(id) = Null THEN NotFoundError("NotFoundError", "Community " \o ToString(id) \o " doesn't exist!")
    ELSE IF checkObjectIdInArray(user, getCommunityByID(id).members) THEN NotFoundError("CommunityUserNoMatchError", "{0} is not a member of community {1}")
    ELSE Ok("", Null)

assertUserNotInCommunity(id, user) ==
    IF getCommunityByID(id) = Null THEN NotFoundError("NotFoundError", "Community " \o ToString(id) \o " doesn't exist!")
    ELSE IF checkObjectIdInArray(user, getCommunityByID(id).members) THEN NotAllowedError("CommunityMemberExistsError", "{0} is already a member of community {1}")
    ELSE Ok("", Null)

assertCommunityNotExists(title) == IF getCommunityByTitle(title) # Null THEN NotAllowedError("NotAllowedError", "Community already exists!") ELSE Ok("", Null)

\* Mutation: the existence test is lost.
assertCommunityExists_NoCheck(id) == Ok("", Null)

assertCommunityExists(id) == IF getCommunityByID(id) = Null THEN NotFoundError("NotFoundError", "Community doesn't exist!") ELSE Ok("", Null)

\* A CommunityAuthorNoMatchError keeps its constructor arguments as the
\* fields author and _id (value) next to the message template (msg).
CommunityAuthorNoMatchError(author, id) == [NotAllowedError("CommunityAuthorNoMatchError", "{0} is not the author of community {1}") EXCEPT !.value = [author |-> author, _id |-> id]]

\* Mutation: the comparison of the author with the user is lost.
assertAuthorIsUser_NoAuthorCheck(id, user) == IF getCommunityByID(id) = Null THEN NotFoundError("NotFoundError", "Community " \o ToString(id) \o " doesn't exist!") ELSE Ok("", Null)

assertAuthorIsUser(id, user) ==
    IF getCommunityByID(id) = Null THEN NotFoundError("NotFoundError", "Community " \o ToString(id) \o " doesn't exist!")
    ELSE IF getCommunityByID(id).author # user THEN CommunityAuthorNoMatchError(user, id)
    ELSE Ok("", Null)

CallCreate(p) ==
    /\ nextId + InFlightCreates <= MaxIds
    /\ \E author \in Users, title \in Titles, description \in Descriptions :
         Begin(p, [NoCall EXCEPT !.op = "create", !.user = author, !.title = title, !.description = description], "create_assert", NoResult)
    /\ UNCHANGED <<collections, minimumAttention, nextId, detached, unhandled>>

CreateAssert(p) ==
    /\ pc[p] = "create_assert"
    /\ IF assertCommunityNotExists(call[p].title).kind # "ok"
         THEN Finish(p, assertCommunityNotExists(call[p].title))
         ELSE Goto(p, "create_insert") /\ UNCHANGED result
    /\ UNCHANGED <<collections, minimumAttention, nextId, call, community, issued, detached, unhandled, pre, prev>>

CreateInsert(p) ==
    /\ pc[p] = "create_insert"
    /\ communities' = communities \cup {[_id |-> nextId, author |-> call[p].user, title |-> call[p].title, description |-> call[p].description, members |-> <<call[p].user>>]}
    /\ nextId' = nextId + 1
    /\ community' = [community EXCEPT ![p] = [_id |-> nextId]]
    /\ Issue(p, "createOne")
    /\ Goto(p, "create_read")
    /\ UNCHANGED <<communitiesTs, favorites, feeds, features, minimumAttention, call, result, detached, unhandled, pre, prev>>

CreateRead(p) ==
    /\ pc[p] = "create_read"
    /\ Finish(p, Ok("Community Succesfully Created!", ReadOne(communities, [_id |-> community[p]._id])))
    /\ UNCHANGED <<collections, minimumAttention, nextId, call, community, issued, detached, unhandled, pre, prev>>

CallDelete(p) ==
    /\ \E id \in KnownIds : Begin(p, [NoCall EXCEPT !.op = "delete", !.id = id], "delete", NoResult)
    /\ UNCHANGED <<collections, minimumAttention, nextId, detached, unhandled>>

Delete(p) ==
    /\ pc[p] = "delete"
    /\ communities' = DeleteOne(communities, [_id |-> call[p].id])
    /\ Issue(p, "deleteOne")
    /\ Finish(p, Ok("Community Succesfully Deleted!", Null))
    /\ UNCHANGED <<communitiesTs, favorites, feeds, features, minimumAttention, nextId, call, community, detached, unhandled, pre, prev>>

CallJoin(p) ==
    /\ \E user \in Users, id \in KnownIds : Begin(p, [NoCall EXCEPT !.op = "join", !.user = user, !.id = id], "join_read", NoResult)
    /\ UNCHANGED <<collections, minimumAttention, nextId, detached, unhandled>>

JoinRead(p) ==
    /\ pc[p] = "join_read"
    /\ community' = [community EXCEPT ![p] = getCommunityByID(call[p].id)]
    /\ Goto(p, "join_assert")
    /\ UNCHANGED <<collections, minimumAttention, nextId, call, result, issued, detached, unhandled, pre, prev>>

\* Mutation: a NotFoundError of the assertion does not end the call.
JoinAssert_IgnoresNotFound(p) ==
    /\ pc[p] = "join_assert"
    /\ IF assertUserNotInCommunity(call[p].id, call[p].user).kind = "NotAllowed"
         THEN Finish(p, assertUserNotInCommunity(call[p].id, call[p].user))
         ELSE Goto(p, "join_update") /\ UNCHANGED result
    /\ UNCHANGED <<collections, minimumAttention, nextId, call, community, issued, detached, unhandled, pre, prev>>

JoinAssert(p) ==
    /\ pc[p] = "join_assert"
    /\ IF assertUserNotInCommunity(call[p].id, call[p].user).kind # "ok"
         THEN Finish(p, assertUserNotInCommunity(call[p].id, call[p].user))
         ELSE Goto(p, "join_update") /\ UNCHANGED result
    /\ UNCHANGED <<collections, minimumAttention, nextId, call, community, issued, detached, unhandled, pre, prev>>

\* Mutation: the push is lost.
JoinMembers_NoPush(p) == IF community[p] = Null THEN Null ELSE community[p].members

\* community?.members followed by push(user): undefined when the read found nothing
JoinMembers(p) == IF community[p] = Null THEN Null ELSE Append(community[p].members, call[p].user)

JoinUpdate(p) ==
    /\ pc[p] = "join_update"
    /\ community[p] # Null => Len(community[p].members) < MaxMembers
    /\ communities' = PartialUpdateOne(communities, [_id |-> call[p].id], [members |-> JoinMembers(p)])
    /\ Issue(p, "partialUpdateOne")
    /\ Finish(p, Ok("A user has joined the community!", Null))
    /\ UNCHANGED <<communitiesTs, favorites, feeds, features, minimumAttention, nextId, call, community, detached, unhandled, pre, prev>>

CallLeave(p) ==
    /\ \E user \in Users, id \in KnownIds : Begin(p, [NoCall EXCEPT !.op = "leave", !.user = user, !.id = id], "leave_read", NoResult)
    /\ UNCHANGED <<collections, minimumAttention, nextId, detached, unhandled>>

LeaveRead(p) ==
    /\ pc[p] = "leave_read"
    /\ community' = [community EXCEPT ![p] = getCommunityByID(call[p].id)]
    /\ Goto(p, "leave_assert")
    /\ UNCHANGED <<collections, minimumAttention, nextId, call, result, issued, detached, unhandled, pre, prev>>

LeaveAssert(p) ==
    /\ pc[p] = "leave_assert"
    /\ IF assertUserInCommunity(call[p].id, call[p].user).kind # "ok"
         THEN Finish(p, assertUserInCommunity(call[p].id, call[p].user))
         ELSE Goto(p, "leave_update") /\ UNCHANGED result
    /\ UNCHANGED <<collections, minimumAttention, nextId, call, community, issued, detached, unhandled, pre, prev>>

\* oldMembersArray?.filter((e) => e.toString() !== user.toString())
LeaveMembers(p) == IF community[p] = Null THEN Null ELSE SelectSeq(community[p].members, LAMBDA e : e # call[p].user)

LeaveUpdate(p) ==
    /\ pc[p] = "leave_update"
    /\ communities' = PartialUpdateOne(communities, [_id |-> call[p].id], [members |-> LeaveMembers(p)])
    /\ Issue(p, "partialUpdateOne")
    /\ Finish(p, Ok("A user has left the community!", Null))
    /\ UNCHANGED <<communitiesTs, favorites, feeds, features, minimumAttention, nextId, call, community, detached, unhandled, pre, prev>>

\* -------------------------- CommunitingConcept (server/concepts/communiting.ts)
\* create of this version calls assertCommunityNotExists without await: the
\* assertion runs detached, its rejection is dropped into unhandled.
getCommunityByTitleTs(title) == ReadOne(communitiesTs, [title |-> title])

assertCommunityNotExistsTs(title) == IF getCommunityByTitleTs(title) # Null THEN NotAllowedError("NotAllowedError", "Community already exists") ELSE Ok("", Null)

Drop(r) == IF r.kind # "ok" THEN unhandled \cup {r.error} ELSE unhandled

CallCreateTs(p) ==
    /\ nextId + InFlightCreates <= MaxIds
    /\ \E author \in Users, title \in Titles, description \in Descriptions :
         Begin(p, [NoCall EXCEPT !.op = "create", !.user = author, !.title = title, !.description = description], "createTs_insert", NoResult)
    /\ detached' = [detached EXCEPT ![p] = {"assertCommunityNotExists"}]
    /\ UNCHANGED <<collections, minimumAttention, nextId, unhandled>>

DetachedAssertCommunityNotExistsTs(p) ==
    /\ "assertCommunityNotExists" \in detached[p]
    /\ unhandled' = Drop(assertCommunityNotExistsTs(call[p].title))
    /\ detached' = [detached EXCEPT ![p] = @ \ {"assertCommunityNotExists"}]
    /\ UNCHANGED <<collections, minimumAttention, nextId, pc, call, community, result, issued, pre, prev>>

CreateTsInsert(p) ==
    /\ pc[p] = "createTs_insert"
    /\ communitiesTs' = communitiesTs \cup {[_id |-> nextId, author |-> call[p].user, title |-> call[p].title, description |-> call[p].description, items |-> <<>>, members |-> <<call[p].user>>]}
    /\ nextId' = nextId + 1
    /\ community' = [community EXCEPT ![p] = [_id |-> nextId]]
    /\ Issue(p, "createOne")
    /\ Goto(p, "createTs_read")
    /\ UNCHANGED <<communities, favorites, feeds, features, minimumAttention, call, result, detached, unhandled, pre, prev>>

CreateTsRead(p) ==
    /\ pc[p] = "createTs_read"
    /\ Finish(p, Ok("Community Succesfully Created!", ReadOne(communitiesTs, [_id |-> community[p]._id])))
    /\ UNCHANGED <<collections, minimumAttention, nextId, call, community, issued, detached, unhandled, pre, prev>>

CallDeleteTs(p) ==
    /\ \E id \in KnownIds : Begin(p, [NoCall EXCEPT !.op = "delete", !.id = id], "deleteTs", NoResult)
    /\ UNCHANGED <<collections, minimumAttention, nextId, detached, unhandled>>

DeleteTs(p) ==
    /\ pc[p] = "deleteTs"
    /\ communitiesTs' = DeleteOne(communitiesTs, [_id |-> call[p].id])
    /\ Issue(p, "deleteOne")
    /\ Finish(p, Ok("Community Succesfully Deleted!", Null))
    /\ UNCHANGED <<communities, favorites, feeds, features, minimumAttention, nextId, call, community, detached, unhandled, pre, prev>>

getCommunityByIDTs(id) == ReadOne(communitiesTs, [_id |-> id])

\* The four assertions declare (_id, user) or (_id, item); each reports a
\* failed test with CommunityUserNoMatchError, a NotFoundError.
assertUserInCommunityTs(id, user) ==
    IF getCommunityByIDTs(id) = Null THEN NotFoundError("NotFoundError", "Community " \o ToString(id) \o " doesn't exist!")
    ELSE IF ~checkObjectIdInArray(user, getCommunityByIDTs(id).members) THEN NotFoundError("CommunityUserNoMatchError", "{0} is not a member of community {1}")
    ELSE Ok("", Null)

assertUserNotInCommunityTs(id, user) ==
    IF getCommunityByIDTs(id) = Null THEN NotFoundError("NotFoundError", "Community " \o ToString(id) \o " doesn't exist!")
    ELSE IF checkObjectIdInArray(user, getCommunityByIDTs(id).members) THEN NotFoundError("CommunityUserNoMatchError", "{0} is not a member of community {1}")
    ELSE Ok("", Null)

assertItemInCommunityTs(id, item) ==
    IF getCommunityByIDTs(id) = Null THEN NotFoundError("NotFoundError", "Community " \o ToString(id) \o " doesn't exist!")
    ELSE IF ~checkObjectIdInArray(item, getCommunityByIDTs(id).items) THEN NotFoundError("CommunityUserNoMatchError", "{0} is not a member of community {1}")
    ELSE Ok("", Null)

assertItemNotInCommunityTs(id, item) ==
    IF getCommunityByIDTs(id) = Null THEN NotFoundError("NotFoundError", "Community " \o ToString(id) \o " doesn't exist!")
    ELSE IF checkObjectIdInArray(item, getCommunityByIDTs(id).items) THEN NotFoundError("CommunityUserNoMatchError", "{0} is not a member of community {1}")
    ELSE Ok("", Null)

\* join, leave, addItem and deleteItem: the read of the community, then the
\* awaited assertion, called with (user, _id) or (item, _id), then the
\* partialUpdateOne of the whole array.
CallJoinTs(p) ==
    /\ \E user \in Users, id \in KnownIds : Begin(p, [NoCall EXCEPT !.op = "joinTs", !.user = user, !.id = id], "joinTs_read", NoResult)
    /\ UNCHANGED <<collections, minimumAttention, nextId, detached, unhandled>>

JoinTsRead(p) ==
    /\ pc[p] = "joinTs_read"
    /\ community' = [community EXCEPT ![p] = getCommunityByIDTs(call[p].id)]
    /\ Goto(p, "joinTs_assert")
    /\ UNCHANGED <<collections, minimumAttention, nextId, call, result, issued, detached, unhandled, pre, prev>>

JoinTs(p) ==
    /\ pc[p] \in {"joinTs_assert", "joinTs_update"}
    /\ IF pc[p] = "joinTs_assert"
         THEN /\ IF assertUserNotInCommunityTs(call[p].user, call[p].id).kind # "ok"
                   THEN Finish(p, assertUserNotInCommunityTs(call[p].user, call[p].id))
                   ELSE Goto(p, "joinTs_update") /\ UNCHANGED result
              /\ UNCHANGED <<communitiesTs, issued>>
         ELSE /\ communitiesTs' = PartialUpdateOne(communitiesTs, [_id |-> call[p].id], [members |-> IF community[p] = Null THEN Null ELSE Append(community[p].members, call[p].user)])
              /\ Issue(p, "partialUpdateOne")
              /\ Finish(p, Ok("A user has joined the community!", Null))
    /\ UNCHANGED <<communities, favorites, feeds, features, minimumAttention, nextId, call, community, detached, unhandled, pre, prev>>

CallLeaveTs(p) ==
    /\ \E user \in Users, id \in KnownIds : Begin(p, [NoCall EXCEPT !.op = "leaveTs", !.user = user, !.id = id], "leaveTs_read", NoResult)
    /\ UNCHANGED <<collections, minimumAttention, nextId, detached, unhandled>>

LeaveTsRead(p) ==
    /\ pc[p] = "leaveTs_read"
    /\ community' = [community EXCEPT ![p] = getCommunityByIDTs(call[p].id)]
    /\ Goto(p, "leaveTs_assert")
    /\ UNCHANGED <<collections, minimumAttention, nextId, call, result, issued, detached, unhandled, pre, prev>>

LeaveTs(p) ==
    /\ pc[p] \in {"leaveTs_assert", "leaveTs_update"}
    /\ IF pc[p] = "leaveTs_assert"
         THEN /\ IF assertUserInCommunityTs(call[p].user, call[p].id).kind # "ok"
                   THEN Finish(p, assertUserInCommunityTs(call[p].user, call[p].id))
                   ELSE Goto(p, "leaveTs_update") /\ UNCHANGED result
              /\ UNCHANGED <<communitiesTs, issued>>
         ELSE /\ communitiesTs' = PartialUpdateOne(communitiesTs, [_id |-> call[p].id], [members |-> IF community[p] = Null THEN Null ELSE SelectSeq(community[p].members, LAMBDA e : e # call[p].user)])
              /\ Issue(p, "partialUpdateOne")
              /\ Finish(p, Ok("A user has left the community!", Null))
    /\ UNCHANGED <<communities, favorites, feeds, features, minimumAttention, nextId, call, community, detached, unhandled, pre, prev>>

CallAddItemTs(p) ==
    /\ \E item \in Items, id \in KnownIds : Begin(p, [NoCall EXCEPT !.op = "addItemTs", !.item = item, !.id = id], "addItemTs_read", NoResult)
    /\ UNCHANGED <<collections, minimumAttention, nextId, detached, unhandled>>

AddItemTsRead(p) ==
    /\ pc[p] = "addItemTs_read"
    /\ community' = [community EXCEPT ![p] = getCommunityByIDTs(call[p].id)]
    /\ Goto(p, "addItemTs_assert")
    /\ UNCHANGED <<collections, minimumAttention, nextId, call, result, issued, detached, unhandled, pre, prev>>

AddItemTs(p) ==
    /\ pc[p] \in {"addItemTs_assert", "addItemTs_update"}
    /\ IF pc[p] = "addItemTs_assert"
         THEN /\ IF assertItemNotInCommunityTs(call[p].item, call[p].id).kind # "ok"
                   THEN Finish(p, assertItemNotInCommunityTs(call[p].item, call[p].id))
                   ELSE Goto(p, "addItemTs_update") /\ UNCHANGED result
              /\ UNCHANGED <<communitiesTs, issued>>
         ELSE /\ communitiesTs' = PartialUpdateOne(communitiesTs, [_id |-> call[p].id], [items |-> IF community[p] = Null THEN Null ELSE Append(community[p].items, call[p].item)])
              /\ Issue(p, "partialUpdateOne")
              /\ Finish(p, Ok("An item has been added to the community!", Null))
    /\ UNCHANGED <<communities, favorites, feeds, features, minimumAttention, nextId, call, community, detached, unhandled, pre, prev>>

CallDeleteItemTs(p) ==
    /\ \E item \in Items, id \in KnownIds : Begin(p, [NoCall EXCEPT !.op = "deleteItemTs", !.item = item, !.id = id], "deleteItemTs_read", NoResult)
    /\ UNCHANGED <<collections, minimumAttention, nextId, detached, unhandled>>

DeleteItemTsRead(p) ==
    /\ pc[p] = "deleteItemTs_read"
    /\ community' = [community EXCEPT ![p] = getCommunityByIDTs(call[p].id)]
    /\ Goto(p, "deleteItemTs_assert")
    /\ UNCHANGED <<collections, minimumAttention, nextId, call, result, issued, detached, unhandled, pre, prev>>

DeleteItemTs(p) ==
    /\ pc[p] \in {"deleteItemTs_assert", "deleteItemTs_update"}
    /\ IF pc[p] = "deleteItemTs_assert"
         THEN /\ IF assertItemInCommunityTs(call[p].item, call[p].id).kind # "ok"
                   THEN Finish(p, assertItemInCommunityTs(call[p].item, call[p].id))
                   ELSE Goto(p, "deleteItemTs_update") /\ UNCHANGED result
              /\ UNCHANGED <<communitiesTs, issued>>
         ELSE /\ communitiesTs' = PartialUpdateOne(communitiesTs, [_id |-> call[p].id], [items |-> IF community[p] = Null THEN Null ELSE SelectSeq(community[p].items, LAMBDA e : e # call[p].item)])
              /\ Issue(p, "partialUpdateOne")
              /\ Finish(p, Ok("An item has been deleted from the community!", Null))
    /\ UNCHANGED <<communities, favorites, feeds, features, minimumAttention, nextId, call, community, detached, unhandled, pre, prev>>

\* ------------------------------- FavoritingConcept (server/concepts/favoriting.ts)
\* favorite and unfavorite call their assertion without await: its readOne is
\* in flight together with the createOne / deleteOne of the action.
assertItemIsFavorite(user, item) == IF ReadOne(favorites, [user |-> user, item |-> item]) = Null THEN NotFoundError("FavoriteItemNoMatchError", "{0} hasnot favorited item {1}") ELSE Ok("", Null)

assertItemIsNotFavorite(user, item) == IF ReadOne(favorites, [user |-> user, item |-> item]) # Null THEN NotAllowedError("FavoriteItemExistsError", "{0} has already favorited item {1}") ELSE Ok("", Null)

getNumFavorites(item) == Cardinality(ReadMany(favorites, [item |-> item]))

CallFavorite(p) ==
    /\ nextId + InFlightCreates <= MaxIds
    /\ \E user \in Users, item \in Items : Begin(p, [NoCall EXCEPT !.op = "favorite", !.user = user, !.item = item], "favorite_create", NoResult)
    /\ detached' = [detached EXCEPT ![p] = {"assertItemIsNotFavorite"}]
    /\ UNCHANGED <<collections, minimumAttention, nextId, unhandled>>

DetachedAssertItemIsNotFavorite(p) ==
    /\ "assertItemIsNotFavorite" \in detached[p]
    /\ unhandled' = Drop(assertItemIsNotFavorite(call[p].user, call[p].item))
    /\ detached' = [detached EXCEPT ![p] = @ \ {"assertItemIsNotFavorite"}]
    /\ UNCHANGED <<collections, minimumAttention, nextId, pc, call, community, result, issued, pre, prev>>

FavoriteCreate(p) ==
    /\ pc[p] = "favorite_create"
    /\ favorites' = favorites \cup {[_id |-> nextId, user |-> call[p].user, item |-> call[p].item]}
    /\ nextId' = nextId + 1
    /\ community' = [community EXCEPT ![p] = [_id |-> nextId]]
    /\ Issue(p, "createOne")
    /\ Goto(p, "favorite_read")
    /\ UNCHANGED <<communities, communitiesTs, feeds, features, minimumAttention, call, result, detached, unhandled, pre, prev>>

FavoriteRead(p) ==
    /\ pc[p] = "favorite_read"
    /\ Finish(p, Ok("A user has favorited an item!", ReadOne(favorites, [_id |-> community[p]._id])))
    /\ UNCHANGED <<collections, minimumAttention, nextId, call, community, issued, detached, unhandled, pre, prev>>

CallUnfavorite(p) ==
    /\ \E user \in Users, item \in Items : Begin(p, [NoCall EXCEPT !.op = "unfavorite", !.user = user, !.item = item], "unfavorite_delete", NoResult)
    /\ detached' = [detached EXCEPT ![p] = {"assertItemIsFavorite"}]
    /\ UNCHANGED <<collections, minimumAttention, nextId, unhandled>>

DetachedAssertItemIsFavorite(p) ==
    /\ "assertItemIsFavorite" \in detached[p]
    /\ unhandled' = Drop(assertItemIsFavorite(call[p].user, call[p].item))
    /\ detached' = [detached EXCEPT ![p] = @ \ {"assertItemIsFavorite"}]
    /\ UNCHANGED <<collections, minimumAttention, nextId, pc, call, community, result, issued, pre, prev>>

UnfavoriteDelete(p) ==
    /\ pc[p] = "unfavorite_delete"
    /\ favorites' = DeleteOne(favorites, [user |-> call[p].user, item |-> call[p].item])
    /\ Issue(p, "deleteOne")
    /\ Finish(p, Ok("A user has unfavorited an item!", Null))
    /\ UNCHANGED <<communities, communitiesTs, feeds, features, minimumAttention, nextId, call, community, detached, unhandled, pre, prev>>

\* ------------------------------------- FeedingConcept (server/concepts/feeding.ts)
\* The assertions declare (_id, itemId) and filter on the field "community",
\* which no FeedDoc has; addItem and deleteItem call them with (item, feed).
Feeds == 301..(300 + NumItems)

getItems(feed) == ReadMany(feeds, [feed |-> feed])

assertItemInFeed(id, itemId) == IF ReadOne(feeds, [community |-> id, item |-> itemId]) = Null THEN NotFoundError("FeedItemNoMatchError", "{0} is not an item of feed {1}") ELSE Ok("", Null)

assertItemNotInFeed(id, itemId) == IF ReadOne(feeds, [community |-> id, item |-> itemId]) # Null THEN NotAllowedError("FeedItemExistsError", "{0} is already an item of feed {1}") ELSE Ok("", Null)

CallAddItem(p) ==
    /\ nextId + InFlightCreates <= MaxIds
    /\ \E item \in Items, feed \in Feeds : Begin(p, [NoCall EXCEPT !.op = "addItem", !.item = item, !.id = feed], "addItem_assert", NoResult)
    /\ UNCHANGED <<collections, minimumAttention, nextId, detached, unhandled>>

AddItemAssert(p) ==
    /\ pc[p] = "addItem_assert"
    /\ IF assertItemNotInFeed(call[p].item, call[p].id).kind # "ok"
         THEN Finish(p, assertItemNotInFeed(call[p].item, call[p].id))
         ELSE Goto(p, "addItem_create") /\ UNCHANGED result
    /\ UNCHANGED <<collections, minimumAttention, nextId, call, community, issued, detached, unhandled, pre, prev>>

AddItemCreate(p) ==
    /\ pc[p] = "addItem_create"
    /\ feeds' = feeds \cup {[_id |-> nextId, feed |-> call[p].id, item |-> call[p].item]}
    /\ nextId' = nextId + 1
    /\ Issue(p, "createOne")
    /\ Finish(p, Ok("An item has been added to a feed!", Null))
    /\ UNCHANGED <<communities, communitiesTs, favorites, features, minimumAttention, call, community, detached, unhandled, pre, prev>>

CallDeleteItem(p) ==
    /\ \E item \in Items, feed \in Feeds : Begin(p, [NoCall EXCEPT !.op = "deleteItem", !.item = item, !.id = feed], "deleteItem_assert", NoResult)
    /\ UNCHANGED <<collections, minimumAttention, nextId, detached, unhandled>>

\* The two round-trips of deleteItem: the awaited assertion, then the deleteOne.
DeleteItem(p) ==
    /\ pc[p] \in {"deleteItem_assert", "deleteItem_delete"}
    /\ IF pc[p] = "deleteItem_assert"
         THEN /\ IF assertItemInFeed(call[p].item, call[p].id).kind # "ok"
                   THEN Finish(p, assertItemInFeed(call[p].item, call[p].id))
                   ELSE Goto(p, "deleteItem_delete") /\ UNCHANGED result
              /\ UNCHANGED <<feeds, issued>>
         ELSE /\ feeds' = DeleteOne(feeds, [feed |-> call[p].id, item |-> call[p].item])
              /\ Issue(p, "deleteOne")
              /\ Finish(p, Ok("An item has been deleted from the community!", Null))
    /\ UNCHANGED <<communities, communitiesTs, favorites, features, minimumAttention, nextId, call, community, detached, unhandled, pre, prev>>

\* ------------------------------------------- FeaturingConcept (unnamed/part_001)
\* The assertions test the argument item, never the document read (whose
\* readOne is not awaited), and promote/depromote call them without await:
\* they settle within the call and a rejection is dropped into unhandled.
\* An ObjectId is an object, hence truthy.
Truthy(objectId) == TRUE

assertItemIsFeatured(item) == IF ~Truthy(item) THEN NotFoundError("NotFoundError", "Item is not featured!") ELSE Ok("", Null)

assertItemIsNotFeatured(item) == IF Truthy(item) THEN NotAllowedError("NotAllowedError", "Item is already featured!") ELSE Ok("", Null)

getFeatured == ReadMany(features, <<>>)

CallPromote(p) ==
    /\ \E item \in Items, attention \in Attentions :
         /\ attention >= minimumAttention => nextId + InFlightCreates <= MaxIds
         /\ unhandled' = Drop(assertItemIsNotFeatured(item))
         /\ IF attention >= minimumAttention
              THEN Begin(p, [NoCall EXCEPT !.op = "promote", !.item = item, !.attention = attention], "promote_create", NoResult)
              ELSE Begin(p, [NoCall EXCEPT !.op = "promote", !.item = item, !.attention = attention], "done", Ok("The item didn't meet the minimum attention.", Null))
    /\ UNCHANGED <<collections, minimumAttention, nextId, detached>>

PromoteCreate(p) ==
    /\ pc[p] = "promote_create"
    /\ features' = features \cup {[_id |-> nextId, item |-> call[p].item]}
    /\ nextId' = nextId + 1
    /\ Issue(p, "createOne")
    /\ Finish(p, Ok("An item has been added to a feed!", Null))
    /\ UNCHANGED <<communities, communitiesTs, favorites, feeds, minimumAttention, call, community, detached, unhandled, pre, prev>>

CallDepromote(p) ==
    /\ \E item \in Items, attention \in Attentions :
         /\ unhandled' = Drop(assertItemIsFeatured(item))
         /\ IF attention < minimumAttention
              THEN Begin(p, [NoCall EXCEPT !.op = "depromote", !.item = item, !.attention = attention], "depromote_delete", NoResult)
              ELSE Begin(p, [NoCall EXCEPT !.op = "depromote", !.item = item, !.attention = attention], "done", Ok("The item still has the minimum attention.", Null))
    /\ UNCHANGED <<collections, minimumAttention, nextId, detached>>

DepromoteDelete(p) ==
    /\ pc[p] = "depromote_delete"
    /\ features' = DeleteOne(features, [item |-> call[p].item])
    /\ Issue(p, "deleteOne")
    /\ Finish(p, Ok("An item has been depromoted", Null))
    /\ UNCHANGED <<communities, communitiesTs, favorites, feeds, minimumAttention, nextId, call, community, detached, unhandled, pre, prev>>

\* --------------------------------- error resolution (server/responses.ts)
\* Authing holds one user document per user id; the username is not the id.
getUserById(id) == [_id |-> id, username |-> "user" \o ToString(id - 100)]

\* A message template, cut at its positional placeholders.
Tokens(format) ==
    IF format = "{0} is not the author of community {1}" THEN <<"{0}", " is not the author of community ", "{1}">>
    ELSE <<format>>

Placeholder(i) == "{" \o ToString(i) \o "}"

RECURSIVE Concat(_)
Concat(tokens) == IF tokens = <<>> THEN "" ELSE Head(tokens) \o Concat(Tail(tokens))

\* String.replace with a string pattern: the first occurrence only.
ReplaceFirst(tokens, placeholder, arg) ==
    [i \in 1..Len(tokens) |-> IF tokens[i] = placeholder /\ (\A j \in 1..(i - 1) : tokens[j] # placeholder) THEN arg ELSE tokens[i]]

RECURSIVE Substitute(_, _, _)
Substitute(tokens, args, i) == IF i > Len(args) THEN tokens ELSE Substitute(ReplaceFirst(tokens, Placeholder(i - 1), args[i]), args, i + 1)

\* formatWith(...args): placeholder {i} of the template becomes args[i].
formatWith(format, args) == Concat(Substitute(Tokens(format), args, 1))

\* Mutation: the raw author id is formatted, no username is looked up.
resolveCommunityAuthorNoMatchError_RawId(e) == formatWith(e.msg, <<ToString(e.value.author), ToString(e.value._id)>>)

\* The resolver registered for CommunityAuthorNoMatchError.
resolveCommunityAuthorNoMatchError(e) == formatWith(e.msg, <<getUserById(e.value.author).username, ToString(e.value._id)>>)

\* The router answers an error with the message of the resolver registered
\* for its class, and with the error's own message when none is registered.
handleError(e) == IF e.error = "CommunityAuthorNoMatchError" THEN [e EXCEPT !.msg = resolveCommunityAuthorNoMatchError(e)] ELSE e

\* ------------------------------------------ request handlers (server/routes.ts)
\* The session user is logged in; a community's feed is named by the
\* community's id.
Throw(p, r) ==
    /\ pc' = [pc EXCEPT ![p] = "handleError"]
    /\ result' = [result EXCEPT ![p] = r]

HandleError(p) ==
    /\ pc[p] = "handleError"
    /\ Finish(p, handleError(result[p]))
    /\ UNCHANGED <<collections, minimumAttention, nextId, call, community, issued, detached, unhandled, pre, prev>>

\* Feeding.deleteFeed(feed): every relation of the feed is removed.
deleteFeed(feed) == feeds \ Matching(feeds, [feed |-> feed])

CallDeleteCommunity(p) ==
    /\ \E user \in Users, id \in KnownIds : Begin(p, [NoCall EXCEPT !.op = "deleteCommunity", !.user = user, !.id = id], "deleteCommunity_assert", NoResult)
    /\ UNCHANGED <<collections, minimumAttention, nextId, detached, unhandled>>

DeleteCommunityAssert(p) ==
    /\ pc[p] = "deleteCommunity_assert"
    /\ IF assertAuthorIsUser(call[p].id, call[p].user).kind # "ok"
         THEN Throw(p, assertAuthorIsUser(call[p].id, call[p].user))
         ELSE Goto(p, "deleteCommunity_deleteFeed") /\ UNCHANGED result
    /\ UNCHANGED <<collections, minimumAttention, nextId, call, community, issued, detached, unhandled, pre, prev>>

DeleteCommunityFeed(p) ==
    /\ pc[p] = "deleteCommunity_deleteFeed"
    /\ feeds' = deleteFeed(call[p].id)
    /\ Issue(p, "deleteFeed")
    /\ Goto(p, "deleteCommunity_delete")
    /\ UNCHANGED <<communities, communitiesTs, favorites, features, minimumAttention, nextId, call, community, result, detached, unhandled, pre, prev>>

DeleteCommunityDelete(p) ==
    /\ pc[p] = "deleteCommunity_delete"
    /\ communities' = DeleteOne(communities, [_id |-> call[p].id])
    /\ Issue(p, "deleteOne")
    /\ Finish(p, Ok("Community Succesfully Deleted!", Null))
    /\ UNCHANGED <<communitiesTs, favorites, feeds, features, minimumAttention, nextId, call, community, detached, unhandled, pre, prev>>

CallAddCommunityItem(p) ==
    /\ nextId + InFlightCreates <= MaxIds
    /\ \E id \in KnownIds, item \in Items : Begin(p, [NoCall EXCEPT !.op = "addCommunityItem", !.id = id, !.item = item], "addCommunityItem_assert", NoResult)
    /\ UNCHANGED <<collections, minimumAttention, nextId, detached, unhandled>>

\* On success the handler goes on into Feeding.addItem(item, community).
AddCommunityItemAssert(p) ==
    /\ pc[p] = "addCommunityItem_assert"
    /\ IF assertCommunityExists(call[p].id).kind # "ok"
         THEN Throw(p, assertCommunityExists(call[p].id))
         ELSE Goto(p, "addItem_assert") /\ UNCHANGED result
    /\ UNCHANGED <<collections, minimumAttention, nextId, call, community, issued, detached, unhandled, pre, prev>>

CallGetCommunityItems(p) ==
    /\ \E id \in KnownIds : Begin(p, [NoCall EXCEPT !.op = "getCommunityItems", !.id = id], "getCommunityItems_assert", NoResult)
    /\ UNCHANGED <<collections, minimumAttention, nextId, detached, unhandled>>

GetCommunityItemsAssert(p) ==
    /\ pc[p] = "getCommunityItems_assert"
    /\ IF assertCommunityExists(call[p].id).kind # "ok"
         THEN Throw(p, assertCommunityExists(call[p].id))
         ELSE Goto(p, "getCommunityItems_getItems") /\ UNCHANGED result
    /\ UNCHANGED <<collections, minimumAttention, nextId, call, community, issued, detached, unhandled, pre, prev>>

GetCommunityItems(p) ==
    /\ pc[p] = "getCommunityItems_getItems"
    /\ Finish(p, Ok("", getItems(call[p].id)))
    /\ UNCHANGED <<collections, minimumAttention, nextId, call, community, issued, detached, unhandled, pre, prev>>

CallDeleteCommunityItem(p) ==
    /\ \E id \in KnownIds, item \in Items : Begin(p, [NoCall EXCEPT !.op = "deleteCommunityItem", !.id = id, !.item = item], "deleteCommunityItem_assert", NoResult)
    /\ UNCHANGED <<collections, minimumAttention, nextId, detached, unhandled>>

\* On success the handler goes on into Feeding.deleteItem(item, community).
DeleteCommunityItemAssert(p) ==
    /\ pc[p] = "deleteCommunityItem_assert"
    /\ IF assertCommunityExists(call[p].id).kind # "ok"
         THEN Throw(p, assertCommunityExists(call[p].id))
         ELSE Goto(p, "deleteItem_assert") /\ UNCHANGED result
    /\ UNCHANGED <<collections, minimumAttention, nextId, call, community, issued, detached, unhandled, pre, prev>>

\* ---------------------------------------------------------- specifications
\* All collections empty; m is the minimumAttention given to the Featuring
\* constructor.
Constructed(m) ==
    /\ communities = {}
    /\ communitiesTs = {}
    /\ favorites = {}
    /\ feeds = {}
    /\ features = {}
    /\ minimumAttention = m
    /\ nextId = 1
    /\ pc = [p \in Procs |-> "idle"]
    /\ call = [p \in Procs |-> NoCall]
    /\ community = [p \in Procs |-> Null]
    /\ result = [p \in Procs |-> NoResult]
    /\ issued = [p \in Procs |-> {}]
    /\ detached = [p \in Procs |-> {}]
    /\ unhandled = {}
    /\ pre = [p \in Procs |-> Snapshot]
    /\ prev = [p \in Procs |-> NoCall]

Init == Constructed(1)

FeaturingInit == \E m \in MinimumAttentions : Constructed(m)

Communiting(p) ==
    \/ CallCreate(p) \/ CreateAssert(p) \/ CreateInsert(p) \/ CreateRead(p)
    \/ CallDelete(p) \/ Delete(p)
    \/ CallJoin(p) \/ JoinRead(p) \/ JoinAssert(p) \/ JoinUpdate(p)
    \/ CallLeave(p) \/ LeaveRead(p) \/ LeaveAssert(p) \/ LeaveUpdate(p)

\* Requests on the Communiting concept arrive one after the other (one
\* client that awaits each call).
Next == \E p \in SeqProcs : Communiting(p) \/ Return(p)

Spec == Init /\ [][Next]_vars

\* The other concepts, each under non-overlapping requests of one client.
CommunitingTs(p) ==
    \/ CallCreateTs(p) \/ DetachedAssertCommunityNotExistsTs(p) \/ CreateTsInsert(p) \/ CreateTsRead(p)
    \/ CallDeleteTs(p) \/ DeleteTs(p)

TsNext == \E p \in SeqProcs : CommunitingTs(p) \/ Return(p)

TsSpec == Init /\ [][TsNext]_vars

Favoriting(p) ==
    \/ CallFavorite(p) \/ DetachedAssertItemIsNotFavorite(p) \/ FavoriteCreate(p) \/ FavoriteRead(p)
    \/ CallUnfavorite(p) \/ DetachedAssertItemIsFavorite(p) \/ UnfavoriteDelete(p)

FavoritingNext == \E p \in SeqProcs : Favoriting(p) \/ Return(p)

FavoritingSpec == Init /\ [][FavoritingNext]_vars

Feeding(p) == CallAddItem(p) \/ AddItemAssert(p) \/ AddItemCreate(p) \/ CallDeleteItem(p) \/ DeleteItem(p)

FeedingNext == \E p \in SeqProcs : Feeding(p) \/ Return(p)

FeedingSpec == Init /\ [][FeedingNext]_vars

Featuring(p) == CallPromote(p) \/ PromoteCreate(p) \/ CallDepromote(p) \/ DepromoteDelete(p)

FeaturingNext == \E p \in SeqProcs : Featuring(p) \/ Return(p)

FeaturingSpec == FeaturingInit /\ [][FeaturingNext]_vars

\* The community handlers of the router: createCommunity, addCommunityItem
\* and deleteCommunity, under non-overlapping requests of one client.
Routes(p) ==
    \/ CallCreate(p) \/ CreateAssert(p) \/ CreateInsert(p) \/ CreateRead(p)
    \/ CallAddCommunityItem(p) \/ AddCommunityItemAssert(p) \/ AddItemAssert(p) \/ AddItemCreate(p)
    \/ CallDeleteCommunity(p) \/ DeleteCommunityAssert(p) \/ DeleteCommunityFeed(p) \/ DeleteCommunityDelete(p)
    \/ HandleError(p)

RoutesNext == \E p \in SeqProcs : Routes(p) \/ Return(p)

RoutesSpec == Init /\ [][RoutesNext]_vars

\* The community handlers together with the handlers of a community's
\* items: getCommunityItems and deleteCommunityItem.
ItemRoutes(p) ==
    \/ Routes(p)
    \/ CallGetCommunityItems(p) \/ GetCommunityItemsAssert(p) \/ GetCommunityItems(p)
    \/ CallDeleteCommunityItem(p) \/ DeleteCommunityItemAssert(p) \/ DeleteItem(p)

ItemRoutesNext == \E p \in SeqProcs : ItemRoutes(p) \/ Return(p)

ItemRoutesSpec == Init /\ [][ItemRoutesNext]_vars

\* The whole concept of communiting.ts: create and delete with the members
\* and items actions, under non-overlapping requests of one client.
CommunitingTsMembers(p) ==
    \/ CommunitingTs(p)
    \/ CallJoinTs(p) \/ JoinTsRead(p) \/ JoinTs(p)
    \/ CallLeaveTs(p) \/ LeaveTsRead(p) \/ LeaveTs(p)
    \/ CallAddItemTs(p) \/ AddItemTsRead(p) \/ AddItemTs(p)
    \/ CallDeleteItemTs(p) \/ DeleteItemTsRead(p) \/ DeleteItemTs(p)

TsMembersNext == \E p \in SeqProcs : CommunitingTsMembers(p) \/ Return(p)

TsMembersSpec == Init /\ [][TsMembersNext]_vars

\* N requests join(user, community) for the same user and the same existing
\* community have arrived together; the user is not a member.
InjectiveSeqs(S) == {q \in UNION {[1..n -> S] : n \in 0..Cardinality(S)} : \A i, j \in 1..Len(q) : i # j => q[i] # q[j]}

JoinRaceInit ==
    /\ \E author \in Users, user \in Users, title \in Titles, description \in Descriptions :
         \E members \in InjectiveSeqs(Users \ {user}) :
            /\ communities = {[_id |-> 1, author |-> author, title |-> title, description |-> description, members |-> members]}
            /\ call = [p \in Procs |-> [NoCall EXCEPT !.op = "join", !.user = user, !.id = 1]]
    /\ communitiesTs = {}
    /\ favorites = {}
    /\ feeds = {}
    /\ features = {}
    /\ minimumAttention = 1
    /\ nextId = 2
    /\ pc = [p \in Procs |-> "join_read"]
    /\ community = [p \in Procs |-> Null]
    /\ result = [p \in Procs |-> NoResult]
    /\ issued = [p \in Procs |-> {}]
    /\ detached = [p \in Procs |-> {}]
    /\ unhandled = {}
    /\ pre = [p \in Procs |-> Snapshot]
    /\ prev = [p \in Procs |-> NoCall]

JoinRaceNext == \E p \in Procs : JoinRead(p) \/ JoinAssert(p) \/ JoinUpdate(p)

JoinRaceSpec == JoinRaceInit /\ [][JoinRaceNext]_vars

\* N requests create(author, title, description) for the same title (the same
\* or different authors) have arrived together; no community has that title.
CreateRaceInit ==
    /\ \E title \in Titles, description \in Descriptions :
         \E authors \in [Procs -> Users] :
            call = [p \in Procs |-> [NoCall EXCEPT !.op = "create", !.user = authors[p], !.title = title, !.description = description]]
    /\ communities = {}
    /\ communitiesTs = {}
    /\ favorites = {}
    /\ feeds = {}
    /\ features = {}
    /\ minimumAttention = 1
    /\ nextId = 1
    /\ pc = [p \in Procs |-> "create_assert"]
    /\ community = [p \in Procs |-> Null]
    /\ result = [p \in Procs |-> NoResult]
    /\ issued = [p \in Procs |-> {}]
    /\ detached = [p \in Procs |-> {}]
    /\ unhandled = {}
    /\ pre = [p \in Procs |-> Snapshot]
    /\ prev = [p \in Procs |-> NoCall]

CreateRaceNext == \E p \in Procs : CreateAssert(p) \/ CreateInsert(p) \/ CreateRead(p)

CreateRaceSpec == CreateRaceInit /\ [][CreateRaceNext]_vars

\* N requests favorite(user, item) for the same pair have arrived together:
\* each has started its assertion without awaiting it and is about to
\* create; the pair has no favorite document.
FavoriteRaceInit ==
    /\ \E user \in Users, item \in Items :
         call = [p \in Procs |-> [NoCall EXCEPT !.op = "favorite", !.user = user, !.item = item]]
    /\ communities = {}
    /\ communitiesTs = {}
    /\ favorites = {}
    /\ feeds = {}
    /\ features = {}
    /\ minimumAttention = 1
    /\ nextId = 1
    /\ pc = [p \in Procs |-> "favorite_create"]
    /\ community = [p \in Procs |-> Null]
    /\ result = [p \in Procs |-> NoResult]
    /\ issued = [p \in Procs |-> {}]
    /\ detached = [p \in Procs |-> {"assertItemIsNotFavorite"}]
    /\ unhandled = {}
    /\ pre = [p \in Procs |-> Snapshot]
    /\ prev = [p \in Procs |-> NoCall]

FavoriteRaceNext == \E p \in Procs : DetachedAssertItemIsNotFavorite(p) \/ FavoriteCreate(p) \/ FavoriteRead(p)

FavoriteRaceSpec == FavoriteRaceInit /\ [][FavoriteRaceNext]_vars

\* Each assertion method called on its own (the methods are public; the
\* handlers call assertAuthorIsUser and assertCommunityExists this way): it
\* reads, then returns or raises.
RunAssertAuthorIsUser(p) ==
    /\ \E id \in KnownIds, user \in Users : Begin(p, [NoCall EXCEPT !.op = "assertAuthorIsUser", !.id = id, !.user = user], "done", assertAuthorIsUser(id, user))
    /\ UNCHANGED <<collections, minimumAttention, nextId, detached, unhandled>>

RunAssertUserInCommunity(p) ==
    /\ \E id \in KnownIds, user \in Users : Begin(p, [NoCall EXCEPT !.op = "assertUserInCommunity", !.id = id, !.user = user], "done", assertUserInCommunity(id, user))
    /\ UNCHANGED <<collections, minimumAttention, nextId, detached, unhandled>>

RunAssertUserNotInCommunity(p) ==
    /\ \E id \in KnownIds, user \in Users : Begin(p, [NoCall EXCEPT !.op = "assertUserNotInCommunity", !.id = id, !.user = user], "done", assertUserNotInCommunity(id, user))
    /\ UNCHANGED <<collections, minimumAttention, nextId, detached, unhandled>>

RunAssertCommunityNotExists(p) ==
    /\ \E title \in Titles : Begin(p, [NoCall EXCEPT !.op = "assertCommunityNotExists", !.title = title], "done", assertCommunityNotExists(title))
    /\ UNCHANGED <<collections, minimumAttention, nextId, detached, unhandled>>

RunAssertCommunityExists(p) ==
    /\ \E id \in KnownIds : Begin(p, [NoCall EXCEPT !.op = "assertCommunityExists", !.id = id], "done", assertCommunityExists(id))
    /\ UNCHANGED <<collections, minimumAttention, nextId, detached, unhandled>>

RunAssertItemInFeed(p) ==
    /\ \E id \in Feeds, item \in Items : Begin(p, [NoCall EXCEPT !.op = "assertItemInFeed", !.id = id, !.item = item], "done", assertItemInFeed(id, item))
    /\ UNCHANGED <<collections, minimumAttention, nextId, detached, unhandled>>

RunAssertItemNotInFeed(p) ==
    /\ \E id \in Feeds, item \in Items : Begin(p, [NoCall EXCEPT !.op = "assertItemNotInFeed", !.id = id, !.item = item], "done", assertItemNotInFeed(id, item))
    /\ UNCHANGED <<collections, minimumAttention, nextId, detached, unhandled>>

\* Mutation: the assertion removes the document it has read.
RunAssertItemIsFavorite_Deletes(p) ==
    /\ \E user \in Users, item \in Items :
         /\ Begin(p, [NoCall EXCEPT !.op = "assertItemIsFavorite", !.user = user, !.item = item], "done", assertItemIsFavorite(user, item))
         /\ favorites' = DeleteOne(favorites, [user |-> user, item |-> item])
    /\ UNCHANGED <<communities, communitiesTs, feeds, features, minimumAttention, nextId, detached, unhandled>>

RunAssertItemIsFavorite(p) ==
    /\ \E user \in Users, item \in Items : Begin(p, [NoCall EXCEPT !.op = "assertItemIsFavorite", !.user = user, !.item = item], "done", assertItemIsFavorite(user, item))
    /\ UNCHANGED <<collections, minimumAttention, nextId, detached, unhandled>>

RunAssertItemIsNotFavorite(p) ==
    /\ \E user \in Users, item \in Items : Begin(p, [NoCall EXCEPT !.op = "assertItemIsNotFavorite", !.user = user, !.item = item], "done", assertItemIsNotFavorite(user, item))
    /\ UNCHANGED <<collections, minimumAttention, nextId, detached, unhandled>>

RunAssertItemIsFeatured(p) ==
    /\ \E item \in Items : Begin(p, [NoCall EXCEPT !.op = "assertItemIsFeatured", !.item = item], "done", assertItemIsFeatured(item))
    /\ UNCHANGED <<collections, minimumAttention, nextId, detached, unhandled>>

RunAssertItemIsNotFeatured(p) ==
    /\ \E item \in Items : Begin(p, [NoCall EXCEPT !.op = "assertItemIsNotFeatured", !.item = item], "done", assertItemIsNotFeatured(item))
    /\ UNCHANGED <<collections, minimumAttention, nextId, detached, unhandled>>

Assertions(p) ==
    \/ RunAssertAuthorIsUser(p) \/ RunAssertUserInCommunity(p) \/ RunAssertUserNotInCommunity(p)
    \/ RunAssertCommunityNotExists(p) \/ RunAssertCommunityExists(p) \/ RunAssertItemInFeed(p)
    \/ RunAssertItemNotInFeed(p) \/ RunAssertItemIsFavorite(p) \/ RunAssertItemIsNotFavorite(p)
    \/ RunAssertItemIsFeatured(p) \/ RunAssertItemIsNotFeatured(p)

\* One stored document that the actions of its concept can have produced:
\* a community (its members any duplicate-free array, after joins and
\* leaves), a favorite, a feed relation or a feature; or nothing stored yet.
AssertionsInit ==
    /\ \/ /\ \E author \in Users, title \in Titles, description \in Descriptions, members \in InjectiveSeqs(Users) :
               communities = {[_id |-> 1, author |-> author, title |-> title, description |-> description, members |-> members]}
          /\ favorites = {} /\ feeds = {} /\ features = {} /\ nextId = 2
       \/ /\ \E user \in Users, item \in Items : favorites = {[_id |-> 1, user |-> user, item |-> item]}
          /\ communities = {} /\ feeds = {} /\ features = {} /\ nextId = 2
       \/ /\ \E feed \in Feeds, item \in Items : feeds = {[_id |-> 1, feed |-> feed, item |-> item]}
          /\ communities = {} /\ favorites = {} /\ features = {} /\ nextId = 2
       \/ /\ \E item \in Items : features = {[_id |-> 1, item |-> item]}
          /\ communities = {} /\ favorites = {} /\ feeds = {} /\ nextId = 2
       \/ communities = {} /\ favorites = {} /\ feeds = {} /\ features = {} /\ nextId = 1
    /\ communitiesTs = {}
    /\ minimumAttention = 1
    /\ pc = [p \in Procs |-> "idle"]
    /\ call = [p \in Procs |-> NoCall]
    /\ community = [p \in Procs |-> Null]
    /\ result = [p \in Procs |-> NoResult]
    /\ issued = [p \in Procs |-> {}]
    /\ detached = [p \in Procs |-> {}]
    /\ unhandled = {}
    /\ pre = [p \in Procs |-> Snapshot]
    /\ prev = [p \in Procs |-> NoCall]

AssertionsNext == \E p \in SeqProcs : Assertions(p) \/ Return(p)

AssertionsSpec == AssertionsInit /\ [][AssertionsNext]_vars

\* N requests, each a join or a leave, by N different users on the same
\* existing community have arrived together.
JoinLeaveRaceInit ==
    /\ \E author \in Users, title \in Titles, description \in Descriptions, members \in InjectiveSeqs(Users) :
         communities = {[_id |-> 1, author |-> author, title |-> title, description |-> description, members |-> members]}
    /\ \E users \in [Procs -> Users], ops \in [Procs -> {"join", "leave"}] :
         /\ \A p, q \in Procs : p # q => users[p] # users[q]
         /\ call = [p \in Procs |-> [NoCall EXCEPT !.op = ops[p], !.user = users[p], !.id = 1]]
         /\ pc = [p \in Procs |-> IF ops[p] = "join" THEN "join_read" ELSE "leave_read"]
    /\ communitiesTs = {}
    /\ favorites = {}
    /\ feeds = {}
    /\ features = {}
    /\ minimumAttention = 1
    /\ nextId = 2
    /\ community = [p \in Procs |-> Null]
    /\ result = [p \in Procs |-> NoResult]
    /\ issued = [p \in Procs |-> {}]
    /\ detached = [p \in Procs |-> {}]
    /\ unhandled = {}
    /\ pre = [p \in Procs |-> Snapshot]
    /\ prev = [p \in Procs |-> NoCall]

JoinLeaveRaceNext ==
    \E p \in Procs :
        \/ JoinRead(p) \/ JoinAssert(p) \/ JoinUpdate(p)
        \/ LeaveRead(p) \/ LeaveAssert(p) \/ LeaveUpdate(p)

JoinLeaveRaceSpec == JoinLeaveRaceInit /\ [][JoinLeaveRaceNext]_vars

\* A deleteCommunity request for community 1 (request 1) and
\* addCommunityItem requests for the same community (the other requests)
\* have arrived together; the community may already have a feed relation.
DeleteRaceInit ==
    /\ \E author \in Users, title \in Titles, description \in Descriptions :
         communities = {[_id |-> 1, author |-> author, title |-> title, description |-> description, members |-> <<author>>]}
    /\ \/ feeds = {} /\ nextId = 2
       \/ (\E item \in Items : feeds = {[_id |-> 2, feed |-> 1, item |-> item]}) /\ nextId = 3
    /\ \E user \in Users, items \in [Procs -> Items] :
         call = [p \in Procs |-> IF p = 1 THEN [NoCall EXCEPT !.op = "deleteCommunity", !.user = user, !.id = 1]
                                 ELSE [NoCall EXCEPT !.op = "addCommunityItem", !.id = 1, !.item = items[p]]]
    /\ pc = [p \in Procs |-> IF p = 1 THEN "deleteCommunity_assert" ELSE "addCommunityItem_assert"]
    /\ communitiesTs = {}
    /\ favorites = {}
    /\ features = {}
    /\ minimumAttention = 1
    /\ community = [p \in Procs |-> Null]
    /\ result = [p \in Procs |-> NoResult]
    /\ issued = [p \in Procs |-> {}]
    /\ detached = [p \in Procs |-> {}]
    /\ unhandled = {}
    /\ pre = [p \in Procs |-> Snapshot]
    /\ prev = [p \in Procs |-> NoCall]

DeleteRaceNext ==
    \E p \in Procs :
        \/ DeleteCommunityAssert(p) \/ DeleteCommunityFeed(p) \/ DeleteCommunityDelete(p)
        \/ AddCommunityItemAssert(p) \/ AddItemAssert(p) \/ AddItemCreate(p)
        \/ HandleError(p)

DeleteRaceSpec == DeleteRaceInit /\ [][DeleteRaceNext]_vars

\* join and leave of both versions of the concept, called one after the
\* other with ids of stored and of missing communities: one community
\* created by either version is stored, or none.
MissingCommunityInit ==
    /\ \/ /\ \E author \in Users, title \in Titles, description \in Descriptions :
               communities = {[_id |-> 1, author |-> author, title |-> title, description |-> description, members |-> <<author>>]}
          /\ communitiesTs = {}
       \/ /\ \E author \in Users, title \in Titles, description \in Descriptions :
               communitiesTs = {[_id |-> 1, author |-> author, title |-> title, description |-> description, items |-> <<>>, members |-> <<author>>]}
          /\ communities = {}
       \/ communities = {} /\ communitiesTs = {}
    /\ favorites = {}
    /\ feeds = {}
    /\ features = {}
    /\ minimumAttention = 1
    /\ nextId = 2
    /\ pc = [p \in Procs |-> "idle"]
    /\ call = [p \in Procs |-> NoCall]
    /\ community = [p \in Procs |-> Null]
    /\ result = [p \in Procs |-> NoResult]
    /\ issued = [p \in Procs |-> {}]
    /\ detached = [p \in Procs |-> {}]
    /\ unhandled = {}
    /\ pre = [p \in Procs |-> Snapshot]
    /\ prev = [p \in Procs |-> NoCall]

MissingCommunityNext ==
    \E p \in SeqProcs :
        \/ CallJoin(p) \/ JoinRead(p) \/ JoinAssert(p) \/ JoinUpdate(p)
        \/ CallLeave(p) \/ LeaveRead(p) \/ LeaveAssert(p) \/ LeaveUpdate(p)
        \/ CallJoinTs(p) \/ JoinTsRead(p) \/ JoinTs(p)
        \/ CallLeaveTs(p) \/ LeaveTsRead(p) \/ LeaveTs(p)
        \/ Return(p)

MissingCommunitySpec == MissingCommunityInit /\ [][MissingCommunityNext]_vars

\* ------------------------------------------------------------- properties
Elements(seq) == {seq[i] : i \in 1..Len(seq)}

Occurrences(seq, x) == Cardinality({i \in 1..Len(seq) : seq[i] = x})

Exists(coll, id) == ReadOne(coll, [_id |-> id]) # Null

MembersIn(coll, id) == ReadOne(coll, [_id |-> id]).members

Done(p, op) == pc[p] = "done" /\ call[p].op = op

\* C1: when all N concurrent join(user, community) calls have returned, the
\* members array holds the user exactly once and at most one call returned
\* its success message.
C1_ConcurrentJoinOnce ==
    (\A p \in Procs : pc[p] = "done") =>
        /\ Exists(communities, 1)
        /\ Occurrences(MembersIn(communities, 1), call[1].user) = 1
        /\ Cardinality({p \in Procs : result[p].kind = "ok"}) <= 1

\* C3: getNumMembers is the number of distinct users in members; a join that
\* succeeds raises it by one, a leave that succeeds lowers it by one, and a
\* rejected join or leave changes nothing.
C3_NumMembers ==
    /\ \A c \in communities : getNumMembers(c._id).kind = "ok" /\ getNumMembers(c._id).value = Cardinality(Elements(c.members))
    /\ \A p \in SeqProcs :
        /\ (Done(p, "join") /\ result[p].kind = "ok") =>
              /\ Exists(pre[p].communities, call[p].id)
              /\ getNumMembers(call[p].id).kind = "ok"
              /\ getNumMembers(call[p].id).value = Len(MembersIn(pre[p].communities, call[p].id)) + 1
        /\ (Done(p, "leave") /\ result[p].kind = "ok") =>
              /\ Exists(pre[p].communities, call[p].id)
              /\ getNumMembers(call[p].id).kind = "ok"
              /\ getNumMembers(call[p].id).value = Len(MembersIn(pre[p].communities, call[p].id)) - 1
        /\ ((Done(p, "join") \/ Done(p, "leave")) /\ result[p].kind # "ok") => communities = pre[p].communities

C3_Witness == \E p \in SeqProcs : Done(p, "leave") /\ result[p].kind = "ok" /\ prev[p].op = "join" /\ getNumMembers(call[p].id).value = 1

\* C4: join of a user who is already in members fails with NotAllowed
\* (CommunityMemberExistsError), issues no partialUpdateOne and leaves the
\* members unchanged.
C4_JoinMember ==
    \A p \in SeqProcs :
        (Done(p, "join") /\ Exists(pre[p].communities, call[p].id) /\ call[p].user \in Elements(MembersIn(pre[p].communities, call[p].id))) =>
            /\ result[p].kind = "NotAllowed"
            /\ result[p].error = "CommunityMemberExistsError"
            /\ "partialUpdateOne" \notin issued[p]
            /\ communities = pre[p].communities

C4_Witness == \E p \in SeqProcs : Done(p, "join") /\ prev[p].op = "join" /\ result[p].kind = "NotAllowed"

\* C5: leave of a user who is not in members fails with NotFound
\* (CommunityUserNoMatchError), issues no partialUpdateOne and leaves the
\* members unchanged; so does a leave right after a successful leave of the
\* same user from the same community.
C5_LeaveNonMember ==
    \A p \in SeqProcs :
        (Done(p, "leave") /\ Exists(pre[p].communities, call[p].id)
           /\ (prev[p].op = "leave" \/ call[p].user \notin Elements(MembersIn(pre[p].communities, call[p].id)))) =>
            /\ result[p].kind = "NotFound"
            /\ result[p].error = "CommunityUserNoMatchError"
            /\ "partialUpdateOne" \notin issued[p]
            /\ communities = pre[p].communities

C5_Witness == \E p \in SeqProcs : Done(p, "leave") /\ prev[p].op = "leave" /\ Exists(pre[p].communities, call[p].id) /\ result[p].kind = "NotFound"

TitlesOf(coll) == {c.title : c \in coll}

UniqueTitles(coll) == \A c, d \in coll : c.title = d.title => c = d

\* C2: in both versions of the concept, create with a title that a stored
\* community already has fails with NotAllowedError and stores no second
\* community with that title, whoever the author is.
C2_TitleUnique ==
    /\ UniqueTitles(communities)
    /\ UniqueTitles(communitiesTs)
    /\ \A p \in SeqProcs :
        /\ (Done(p, "create") /\ call[p].title \in TitlesOf(pre[p].communities)) =>
              result[p].kind = "NotAllowed" /\ communities = pre[p].communities
        /\ (Done(p, "create") /\ call[p].title \in TitlesOf(pre[p].communitiesTs)) =>
              result[p].kind = "NotAllowed" /\ communitiesTs = pre[p].communitiesTs

PairDocs(coll, filter) == Cardinality(Matching(coll, filter))

\* C6: favorite of a pair (user, item) that already has a favorite document
\* fails with NotAllowed (FavoriteItemExistsError) and creates no document,
\* so the favorites collection holds at most one document per pair.
C6_FavoriteOnce ==
    /\ \A user \in Users, item \in Items : PairDocs(favorites, [user |-> user, item |-> item]) <= 1
    /\ \A p \in SeqProcs :
        (Done(p, "favorite") /\ PairDocs(pre[p].favorites, [user |-> call[p].user, item |-> call[p].item]) > 0) =>
            /\ result[p].kind = "NotAllowed"
            /\ result[p].error = "FavoriteItemExistsError"
            /\ favorites = pre[p].favorites

\* C7: unfavorite of a pair (user, item) without a favorite document fails
\* with NotFound (FavoriteItemNoMatchError), does not return the success
\* message and issues no deleteOne.
C7_UnfavoriteAbsent ==
    \A p \in SeqProcs :
        (Done(p, "unfavorite") /\ PairDocs(pre[p].favorites, [user |-> call[p].user, item |-> call[p].item]) = 0) =>
            /\ result[p].kind = "NotFound"
            /\ result[p].error = "FavoriteItemNoMatchError"
            /\ result[p].msg # "A user has unfavorited an item!"
            /\ "deleteOne" \notin issued[p]

\* C8: addItem of a relation (feed, item) that is already stored fails with
\* NotAllowed (FeedItemExistsError) and creates no document, so the feeds
\* collection holds at most one document per pair.
C8_AddItemOnce ==
    /\ \A feed \in Feeds, item \in Items : PairDocs(feeds, [feed |-> feed, item |-> item]) <= 1
    /\ \A p \in SeqProcs :
        (Done(p, "addItem") /\ PairDocs(pre[p].feeds, [feed |-> call[p].id, item |-> call[p].item]) > 0) =>
            /\ result[p].kind = "NotAllowed"
            /\ result[p].error = "FeedItemExistsError"
            /\ feeds = pre[p].feeds

\* C9: deleteItem(i, f) right after an addItem(i, f) that succeeded from a
\* state without (f, i) succeeds too and leaves the feeds collection as it
\* was before the addItem, that is without the one document the addItem
\* created.
C9_AddDeleteRoundTrip ==
    \A p \in SeqProcs :
        (Done(p, "deleteItem") /\ prev[p].op = "addItem" /\ PairDocs(pre[p].feeds, [feed |-> call[p].id, item |-> call[p].item]) = 1) =>
            /\ result[p].kind = "ok"
            /\ feeds = pre[p].feeds \ Matching(pre[p].feeds, [feed |-> call[p].id, item |-> call[p].item])
            /\ getItems(call[p].id) = ReadMany(pre[p].feeds, [feed |-> call[p].id]) \ Matching(pre[p].feeds, [feed |-> call[p].id, item |-> call[p].item])

\* C10: promote creates a feature document exactly when attention >=
\* minimumAttention and the item is not yet featured; below the threshold it
\* returns the informational message, raises nothing and leaves the features
\* as they were; a document is only ever created by a promote whose attention
\* reached the threshold.
C10_PromoteThreshold ==
    \A p \in SeqProcs :
        Done(p, "promote") =>
            /\ (features # pre[p].features) <=> (call[p].attention >= minimumAttention /\ PairDocs(pre[p].features, [item |-> call[p].item]) = 0)
            /\ call[p].attention < minimumAttention =>
                  /\ result[p] = Ok("The item didn't meet the minimum attention.", Null)
                  /\ features = pre[p].features
            /\ "createOne" \in issued[p] => call[p].attention >= minimumAttention

\* C11: promote with attention >= minimumAttention of an item that is
\* already featured fails with NotAllowed and creates no document, so each
\* item has at most one document in features.
C11_PromoteOnce ==
    /\ \A item \in Items : PairDocs(features, [item |-> item]) <= 1
    /\ \A p \in SeqProcs :
        (Done(p, "promote") /\ call[p].attention >= minimumAttention /\ PairDocs(pre[p].features, [item |-> call[p].item]) > 0) =>
            /\ result[p].kind = "NotAllowed"
            /\ "createOne" \notin issued[p]
            /\ features = pre[p].features

\* C12: depromote of an item that is not featured fails with NotFound for
\* every attention, returns neither of its two messages and issues no
\* deleteOne.
C12_DepromoteAbsent ==
    \A p \in SeqProcs :
        (Done(p, "depromote") /\ PairDocs(pre[p].features, [item |-> call[p].item]) = 0) =>
            /\ result[p].kind = "NotFound"
            /\ result[p].msg \notin {"An item has been depromoted", "The item still has the minimum attention."}
            /\ "deleteOne" \notin issued[p]

\* C13: depromote of a featured item leaves it featured and returns the
\* 'still has the minimum attention' message when attention >=
\* minimumAttention, and removes it when attention < minimumAttention, so
\* that getFeatured no longer returns the item.
C13_DepromoteThreshold ==
    \A p \in SeqProcs :
        (Done(p, "depromote") /\ PairDocs(pre[p].features, [item |-> call[p].item]) > 0) =>
            /\ call[p].attention >= minimumAttention =>
                  /\ result[p] = Ok("The item still has the minimum attention.", Null)
                  /\ features = pre[p].features
            /\ call[p].attention < minimumAttention =>
                  /\ result[p].kind = "ok"
                  /\ call[p].item \notin {f.item : f \in getFeatured}

\* C14: within a request every precondition assertion has completed before
\* the first mutating collection call is issued, and an assertion that
\* raises makes the action raise the same error: no request has issued a
\* mutating call while one of its assertions is still in flight, and no
\* rejection of an assertion is ever dropped.
C14_AssertBeforeMutate ==
    /\ \A p \in SeqProcs : issued[p] # {} => detached[p] = {}
    /\ unhandled = {}

\* C15: in every reachable state of CommunitingConcept (create, join and
\* leave by any users, the author included) the author of each stored
\* community is an element of its members array.
C15_AuthorIsMember == \A c \in communities : checkObjectIdInArray(c.author, c.members)

\* C16: when create calls with the same title run concurrently, interleaving
\* at every storage round-trip, at most one of them stores a community: no
\* two community documents share a title.
C16_ConcurrentCreateOnce ==
    /\ \A c, d \in communities : c.title = d.title => c = d
    /\ Cardinality({p \in Procs : "createOne" \in issued[p]}) <= 1

\* C17: when all N concurrent favorite(user, item) calls for the same pair
\* have returned, at most one of them created a document, favorites holds
\* the pair exactly once and getNumFavorites(item) counts that user once.
C17_ConcurrentFavoriteOnce ==
    (\A p \in Procs : Done(p, "favorite") /\ detached[p] = {}) =>
        /\ Cardinality({p \in Procs : result[p].kind = "ok" /\ "createOne" \in issued[p]}) <= 1
        /\ \A p \in Procs : PairDocs(favorites, [user |-> call[p].user, item |-> call[p].item]) = 1
        /\ \A p \in Procs : getNumFavorites(call[p].item) = 1

\* C18: the CommunityAuthorNoMatchError raised by assertAuthorIsUser carries
\* the raw user id and community id next to the unformatted template, and
\* the message the registered resolver returns is the template with {0}
\* replaced by the username Authing resolves for that id (not the raw id)
\* and {1} replaced by the community id.
C18_AuthorNoMatchResolved ==
    \A p \in SeqProcs :
        (call[p].op = "deleteCommunity" /\ result[p].error = "CommunityAuthorNoMatchError") =>
            /\ result[p].value = [author |-> call[p].user, _id |-> call[p].id]
            /\ pc[p] = "handleError" => result[p].msg = "{0} is not the author of community {1}"
            /\ pc[p] = "done" =>
                  /\ result[p].msg = getUserById(call[p].user).username \o " is not the author of community " \o ToString(call[p].id)
                  /\ result[p].msg # ToString(call[p].user) \o " is not the author of community " \o ToString(call[p].id)

C18_Witness == \E p \in SeqProcs : Done(p, "deleteCommunity") /\ result[p].error = "CommunityAuthorNoMatchError" /\ result[p].msg = "user2 is not the author of community 1"

\* C19: deleteCommunity for a community that does not exist fails with
\* NotFound, and by a session user who is not its author with NotAllowed,
\* before any mutation: neither Feeding.deleteFeed nor Communiting.delete
\* is invoked, and the community and its feed relations are unchanged.
C19_DeleteCommunityGuard ==
    \A p \in SeqProcs :
        Done(p, "deleteCommunity") =>
            /\ ~Exists(pre[p].communities, call[p].id) =>
                  /\ result[p].kind = "NotFound"
                  /\ issued[p] = {}
                  /\ communities = pre[p].communities /\ feeds = pre[p].feeds
            /\ (Exists(pre[p].communities, call[p].id) /\ ReadOne(pre[p].communities, [_id |-> call[p].id]).author # call[p].user) =>
                  /\ result[p].kind = "NotAllowed"
                  /\ issued[p] = {}
                  /\ communities = pre[p].communities /\ feeds = pre[p].feeds

C19_Witness == \E p \in SeqProcs : Done(p, "deleteCommunity") /\ result[p].kind = "NotAllowed" /\ Exists(communities, call[p].id) /\ getItems(call[p].id) # {}

\* C20: every assertion method (assertAuthorIsUser, assertUserInCommunity,
\* assertUserNotInCommunity, assertCommunityExists, assertCommunityNotExists,
\* assertItemInFeed, assertItemNotInFeed, assertItemIsFavorite,
\* assertItemIsNotFavorite, assertItemIsFeatured, assertItemIsNotFeatured)
\* leaves every collection as it was when it was called, whether it returns
\* normally or raises.
C20_AssertionsReadOnly ==
    \A p \in SeqProcs :
        (pc[p] = "done" /\ result[p].kind \in {"ok", "NotFound", "NotAllowed"}) => Snapshot = pre[p]

C20_Witness ==
    \E p \in SeqProcs :
        /\ Done(p, "assertUserNotInCommunity") /\ result[p].kind = "NotAllowed"
        /\ communities # {}
        /\ prev[p].op # "none"

\* C21: concurrent join and leave calls on one community by different users
\* are linearizable: when all have returned, a user whose join returned
\* success is in the final members, a user whose leave returned success is
\* not, and a user whose call failed is a member exactly if they were one
\* before.
C21_JoinLeaveLinearizable ==
    (\A p \in Procs : pc[p] = "done") =>
        \A p \in Procs :
            /\ (call[p].op = "join" /\ result[p].kind = "ok") => checkObjectIdInArray(call[p].user, MembersIn(communities, 1))
            /\ (call[p].op = "leave" /\ result[p].kind = "ok") => ~checkObjectIdInArray(call[p].user, MembersIn(communities, 1))
            /\ result[p].kind # "ok" => (checkObjectIdInArray(call[p].user, MembersIn(communities, 1)) <=> checkObjectIdInArray(call[p].user, MembersIn(pre[p].communities, 1)))

\* C22: when deleteCommunity of community c and the addCommunityItem
\* requests for c that interleave with it have all completed, and the
\* deletion succeeded, the community is absent and no feed relation with
\* feed = c exists: no feed relation names a community that no longer
\* exists.
C22_NoOrphanFeed ==
    ((\A p \in Procs : pc[p] = "done") /\ result[1].kind = "ok") =>
        /\ ~Exists(communities, call[1].id)
        /\ getItems(call[1].id) = {}
        /\ \A f \in feeds : Exists(communities, f.feed)

\* C23: getCommunityItems, addCommunityItem and deleteCommunityItem called
\* with the id of a community that does not exist fail with the NotFound of
\* Communiting.assertCommunityExists, issue no call on the Feeding concept
\* and leave the feeds collection unchanged.
C23_ItemHandlersNeedCommunity ==
    \A p \in SeqProcs :
        (pc[p] = "done" /\ call[p].op \in {"getCommunityItems", "addCommunityItem", "deleteCommunityItem"} /\ ~Exists(pre[p].communities, call[p].id)) =>
            /\ result[p] = NotFoundError("NotFoundError", "Community doesn't exist!")
            /\ issued[p] = {}
            /\ feeds = pre[p].feeds

C23_Witness ==
    \E p \in SeqProcs :
        /\ Done(p, "deleteCommunityItem") /\ ~Exists(pre[p].communities, call[p].id)
        /\ result[p].kind = "NotFound"
        /\ call[p].item \in {f.item : f \in feeds}

\* C25: in communiting.ts the actions pass their arguments to the assertions
\* in the order the assertions declare, so that join(user, id) of a
\* non-member into an existing community succeeds and appends the user, and
\* addItem(item, id) of a new item into an existing community succeeds and
\* appends the item.
C25_TsArgumentOrder ==
    \A p \in SeqProcs :
        /\ (Done(p, "joinTs") /\ Exists(pre[p].communitiesTs, call[p].id) /\ ~checkObjectIdInArray(call[p].user, MembersIn(pre[p].communitiesTs, call[p].id))) =>
              /\ result[p] = Ok("A user has joined the community!", Null)
              /\ MembersIn(communitiesTs, call[p].id) = Append(MembersIn(pre[p].communitiesTs, call[p].id), call[p].user)
        /\ (Done(p, "addItemTs") /\ Exists(pre[p].communitiesTs, call[p].id) /\ ~checkObjectIdInArray(call[p].item, ReadOne(pre[p].communitiesTs, [_id |-> call[p].id]).items)) =>
              /\ result[p] = Ok("An item has been added to the community!", Null)
              /\ ReadOne(communitiesTs, [_id |-> call[p].id]).items = Append(ReadOne(pre[p].communitiesTs, [_id |-> call[p].id]).items, call[p].item)

\* C24: in both versions of the concept, join and leave called with the id
\* of a community that does not exist fail with NotFoundError, issue no
\* partialUpdateOne and leave the collection as it was; a join or leave
\* never returns its success message when the community was absent at its
\* existence check.
C24_MissingCommunity ==
    \A p \in SeqProcs :
        /\ (pc[p] = "done" /\ call[p].op \in {"join", "leave"} /\ ~Exists(pre[p].communities, call[p].id)) =>
              /\ result[p].kind = "NotFound" /\ result[p].error = "NotFoundError"
              /\ "partialUpdateOne" \notin issued[p]
              /\ communities = pre[p].communities
        /\ (pc[p] = "done" /\ call[p].op \in {"joinTs", "leaveTs"} /\ ~Exists(pre[p].communitiesTs, call[p].id)) =>
              /\ result[p].kind = "NotFound" /\ result[p].error = "NotFoundError"
              /\ "partialUpdateOne" \notin issued[p]
              /\ communitiesTs = pre[p].communitiesTs
        /\ (pc[p] \in {"join_update", "leave_update"} => Exists(pre[p].communities, call[p].id))
        /\ (pc[p] \in {"joinTs_update", "leaveTs_update"} => Exists(pre[p].communitiesTs, call[p].id))

C24_Witness ==
    \E p \in SeqProcs :
        /\ Done(p, "join") /\ ~Exists(pre[p].communities, call[p].id)
        /\ result[p].kind = "NotFound"
        /\ \E c \in communities : Len(c.members) > 1
====
